---- MODULE Spec2Model ----
(***************************************************************************)
(* Conway's Game of Life on a torus (src/game.py): the engine functions    *)
(* initialize_game, update_game_state and generate_frames, the numpy       *)
(* array operations they are built from, and the callers that hold the     *)
(* arrays the generators yield.                                            *)
(***************************************************************************)
EXTENDS Integers, Sequences, FiniteSets, TLC

(* Bounds of the model. *)
MaxW == 3
MaxH == 2
MaxPulls == 3
ReplayW == 2
ReplayH == 2

(***************************************************************************)
(* numpy arrays.  An array is a record of its shape, its dtype and its     *)
(* data; a bool array stores FALSE/TRUE as 0/1, as numpy does.             *)
(***************************************************************************)
Coords(w, h) == (0 .. (w - 1)) \X (0 .. (h - 1))

MkArray(w, h, dt, d) == [shape |-> <<w, h>>, dtype |-> dt, data |-> d]

Width(a) == a.shape[1]
Height(a) == a.shape[2]

Promote(dt1, dt2) == IF dt1 = "bool" /\ dt2 = "bool" THEN "bool" ELSE "int64"

(* A shift that drops what leaves the board and fills with dead cells: the
   bounded plane, where np.roll gives the torus. *)
RollZeroFill(a, shift, axis) ==
  MkArray(Width(a), Height(a), a.dtype,
          [c \in Coords(Width(a), Height(a)) |->
             IF axis = 0
             THEN (IF (c[1] - shift) \in 0 .. (Width(a) - 1)
                   THEN a.data[<<c[1] - shift, c[2]>>] ELSE 0)
             ELSE (IF (c[2] - shift) \in 0 .. (Height(a) - 1)
                   THEN a.data[<<c[1], c[2] - shift>>] ELSE 0)])

(* np.roll(a, shift, axis): element k of the axis moves to (k + shift) mod n,
   so the result at k is the source at (k - shift) mod n. *)
Roll(a, shift, axis) ==
  MkArray(Width(a), Height(a), a.dtype,
          [c \in Coords(Width(a), Height(a)) |->
             IF axis = 0
             THEN a.data[<<(c[1] - shift) % Width(a), c[2]>>]
             ELSE a.data[<<c[1], (c[2] - shift) % Height(a)>>]])

(* The generator expression of lines 41-43: the (i, j) pairs in the order the
   two for-clauses produce them, with (0, 0) filtered out. *)
Offsets ==
  << <<-1, -1>>, <<-1, 0>>, <<-1, 1>>,
     <<0, -1>>,             <<0, 1>>,
     <<1, -1>>,  <<1, 0>>,  <<1, 1>> >>

(* np.roll(np.roll(game_state, i, 0), j, 1) *)
RolledSameAxis(game_state, i, j) == Roll(Roll(game_state, i, 0), j, 0)

Rolled(game_state, i, j) == Roll(Roll(game_state, i, 0), j, 1)

(* The Python int 0 that the builtin sum() starts from, plus an array: the
   scalar is broadcast and the result is an int64 array whatever the dtype. *)
ScalarAdd(k, a) ==
  MkArray(Width(a), Height(a), "int64",
          [c \in Coords(Width(a), Height(a)) |-> k + a.data[c]])

(* a + b on arrays: integer addition, except that bool + bool is logical or. *)
Add(a, b) ==
  MkArray(Width(a), Height(a), Promote(a.dtype, b.dtype),
          [c \in Coords(Width(a), Height(a)) |->
             IF Promote(a.dtype, b.dtype) = "bool"
             THEN (IF a.data[c] + b.data[c] > 0 THEN 1 ELSE 0)
             ELSE a.data[c] + b.data[c]])

(* sum(...) folded left to right over the first n terms of the generator. *)
RECURSIVE PySum(_, _)
PySum(game_state, n) ==
  IF n = 1
  THEN ScalarAdd(0, Rolled(game_state, Offsets[1][1], Offsets[1][2]))
  ELSE Add(PySum(game_state, n - 1),
           Rolled(game_state, Offsets[n][1], Offsets[n][2]))

(* neighbors_count of lines 41-43 *)
NeighborsCount(game_state) == PySum(game_state, Len(Offsets))

(* a == k : elementwise comparison with a scalar, a bool array *)
EqScalar(a, k) ==
  MkArray(Width(a), Height(a), "bool",
          [c \in Coords(Width(a), Height(a)) |-> IF a.data[c] = k THEN 1 ELSE 0])

(* Bitwise and / or of two naturals, as numpy computes & and | on integers
   (on 0/1 they coincide with the logical operations of bool arrays). *)
RECURSIVE BitAnd(_, _)
BitAnd(m, n) ==
  IF m = 0 \/ n = 0 THEN 0
  ELSE (IF m % 2 = 1 /\ n % 2 = 1 THEN 1 ELSE 0) + 2 * BitAnd(m \div 2, n \div 2)

RECURSIVE BitOr(_, _)
BitOr(m, n) ==
  IF m = 0 THEN n
  ELSE IF n = 0 THEN m
  ELSE (IF m % 2 = 1 \/ n % 2 = 1 THEN 1 ELSE 0) + 2 * BitOr(m \div 2, n \div 2)

And(a, b) ==
  MkArray(Width(a), Height(a), Promote(a.dtype, b.dtype),
          [c \in Coords(Width(a), Height(a)) |-> BitAnd(a.data[c], b.data[c])])

Or(a, b) ==
  MkArray(Width(a), Height(a), Promote(a.dtype, b.dtype),
          [c \in Coords(Width(a), Height(a)) |-> BitOr(a.data[c], b.data[c])])

(* Line 49 with three slips of the kind the expression invites: the state
   operand of & left out, <= typed for ==, and birth kept apart from survival
   so that a live cell with 3 neighbours dies. *)
RuleWithoutState(game_state, neighbors_count) ==
  Or(EqScalar(neighbors_count, 3), EqScalar(neighbors_count, 2))

RuleBirthUpToThree(game_state, neighbors_count) ==
  Or(MkArray(Width(neighbors_count), Height(neighbors_count), "bool",
             [c \in Coords(Width(neighbors_count), Height(neighbors_count)) |->
                IF neighbors_count.data[c] <= 3 THEN 1 ELSE 0]),
     And(game_state, EqScalar(neighbors_count, 2)))

RuleSurviveOnTwoOnly(game_state, neighbors_count) ==
  Or(And(EqScalar(neighbors_count, 3), EqScalar(game_state, 0)),
     And(game_state, EqScalar(neighbors_count, 2)))

(* game_state = (neighbors_count == 3) | (game_state & (neighbors_count == 2)) *)
Rule(game_state, neighbors_count) ==
  Or(EqScalar(neighbors_count, 3),
     And(game_state, EqScalar(neighbors_count, 2)))

(* Lines 52-54: live_neighbors is bound to the counts and game_state is what
   the function returns. *)
ReturnLiveNeighbors(game_state, live_neighbors) == live_neighbors

Returned(game_state, live_neighbors) == game_state

update_game_state(game_state) ==
  Returned(Rule(game_state, NeighborsCount(game_state)),
           NeighborsCount(game_state))

(***************************************************************************)
(* The program state.  Arrays are objects: heap maps an object's identity  *)
(* to its current contents, and every name of the program (main's          *)
(* game_state, a generator's game_state, a frame handed to a consumer)     *)
(* holds an identity, as Python names do.                                  *)
(***************************************************************************)
VARIABLES
  heap,         \* identity -> array, for every array allocated so far
  init_call,    \* the arguments and outcome of the initialize_game call
  game_state0,  \* main's game_state: the initial state handed to generate_frames
  held0,        \* the contents of the initial state when the caller obtained it
  gen,          \* the generator objects: where each stands, its local game_state,
                \* its argument, and the neighbors_count its last
                \* update_game_state call computed (live_neighbors)
  yielded,      \* per generator, the identities it has yielded, in order
  frames,       \* per generator, the contents of each frame when it was yielded
  pulls         \* per generator, the number of next() calls made on it

vars == <<heap, init_call, game_state0, held0, gen, yielded, frames, pulls>>

Gens == {"A", "B"}

None == <<"none", 0>>

NoCounts == <<>>

(* Starting configurations a caller builds by hand and passes to
   create_animation / generate_frames instead of a random draw. *)
CellsAlive(w, h, alive) ==
  MkArray(w, h, "bool", [c \in Coords(w, h) |-> IF c \in alive THEN 1 ELSE 0])

BlinkerH == CellsAlive(10, 10, {<<4, 5>>, <<5, 5>>, <<6, 5>>})
BlinkerV == CellsAlive(10, 10, {<<5, 4>>, <<5, 5>>, <<5, 6>>})
Corner5 == CellsAlive(5, 5, {<<0, 0>>})
AllDead3 == CellsAlive(3, 3, {})

Patterns == {BlinkerH, Corner5, AllDead3}

Init ==
  /\ heap = <<>>
  /\ init_call = [result |-> "none", width |-> 0, height |-> 0]
  /\ game_state0 = None
  /\ held0 = NoCounts
  /\ gen = [g \in Gens |-> [pc |-> "none", game_state |-> None,
                            live_neighbors |-> NoCounts, arg |-> None,
                            origin |-> 0]]
  /\ yielded = [g \in Gens |-> <<>>]
  /\ frames = [g \in Gens |-> <<>>]
  /\ pulls = [g \in Gens |-> 0]

(* h with the array arr stored under identity ref *)
Store(h, ref, arr) ==
  [r \in (DOMAIN h) \cup {ref} |-> IF r = ref THEN arr ELSE h[r]]

(* np.random.choice([0, 1], size=(width, height), p=[0.8, 0.2]): numpy raises
   ValueError for a negative dimension and returns an empty array for a zero
   one; every cell is drawn from [0, 1], each value with non-zero probability. *)
InitializeGame(width, height) ==
  /\ init_call.result = "none"
  /\ IF width < 0 \/ height < 0
     THEN /\ init_call' = [result |-> "error", width |-> width, height |-> height]
          /\ UNCHANGED <<heap, game_state0, held0>>
     ELSE \E d \in [Coords(width, height) -> {0, 1}] :
            /\ init_call' = [result |-> "ok", width |-> width, height |-> height]
            /\ heap' = Store(heap, <<"main", 0>>, MkArray(width, height, "int64", d))
            /\ game_state0' = <<"main", 0>>
            /\ held0' = MkArray(width, height, "int64", d)
  /\ UNCHANGED <<gen, yielded, frames, pulls>>

(* create_animation(game_state) called with a state the caller built. *)
SupplyState(p) ==
  /\ init_call.result = "none"
  /\ init_call' = [result |-> "supplied", width |-> Width(p), height |-> Height(p)]
  /\ heap' = Store(heap, <<"main", 0>>, p)
  /\ game_state0' = <<"main", 0>>
  /\ held0' = p
  /\ UNCHANGED <<gen, yielded, frames, pulls>>

(* generate_frames(game_state): calling a generator function runs none of its
   body; the new generator object holds the argument and waits at its start. *)
GenerateFrames(g, ref, k) ==
  /\ gen[g].pc = "none"
  /\ ref # None
  /\ gen' = [gen EXCEPT ![g] = [pc |-> "created", game_state |-> ref,
                                live_neighbors |-> NoCounts, arg |-> ref,
                                origin |-> k]]
  /\ UNCHANGED <<heap, init_call, game_state0, held0, yielded, frames, pulls>>

(* main -> create_animation: FuncAnimation(frames=generate_frames(game_state)) *)
StartA == GenerateFrames("A", game_state0, 1)

(* A second generator, made from the initial state (k = 1) or from a frame that
   generator A yielded earlier and the caller kept (its k-th). *)
StartB(k) ==
  /\ gen["A"].pc # "none"
  /\ IF k = 1
     THEN GenerateFrames("B", game_state0, 1)
     ELSE /\ k \in 2 .. Len(yielded["A"])
          /\ GenerateFrames("B", yielded["A"][k], k)

(* The identity of the array line 49 binds game_state to: the | expression
   allocates a new array; the old one is left to whoever else holds it. *)
ResultRefInPlace(g, n, old) == old

ResultRef(g, n, old) == <<g, n>>

(* Where a resumed generator continues: a new generator starts at the top of
   the loop and reaches the yield at once; one suspended at the yield first
   runs line 60 and then loops back to the yield. *)
NeedsUpdateAlways(pc) == TRUE

NeedsUpdate(pc) == pc = "suspended"

(* next(generator): run it up to its next yield. *)
Pull(g) ==
  /\ gen[g].pc # "none"
  /\ pulls[g] < MaxPulls
  /\ LET cur == heap[gen[g].game_state]
         upd == NeedsUpdate(gen[g].pc)
         ref == IF upd THEN ResultRef(g, pulls[g], gen[g].game_state)
                       ELSE gen[g].game_state
         heap2 == IF upd THEN Store(heap, ref, update_game_state(cur)) ELSE heap
     IN /\ heap' = heap2
        /\ gen' = [gen EXCEPT ![g].pc = "suspended",
                              ![g].game_state = ref,
                              ![g].live_neighbors =
                                 IF upd THEN NeighborsCount(cur).data ELSE @]
        /\ yielded' = [yielded EXCEPT ![g] = Append(@, ref)]
        /\ frames' = [frames EXCEPT ![g] = Append(@, heap2[ref])]
        /\ pulls' = [pulls EXCEPT ![g] = @ + 1]
  /\ UNCHANGED <<init_call, game_state0, held0>>

(* The program as main runs it: one initial state, one generator, pulled by
   the animation once per frame. *)
Next ==
  \/ \E width \in -1 .. MaxW, height \in -1 .. MaxH : InitializeGame(width, height)
  \/ \E p \in Patterns : SupplyState(p)
  \/ StartA
  \/ Pull("A")

Spec == Init /\ [][Next]_vars

(* A caller that keeps frames, makes a second generator from one of them and
   pulls the two generators in any order. *)
NextReplay ==
  \/ \E width \in -1 .. ReplayW, height \in -1 .. ReplayH : InitializeGame(width, height)
  \/ \E p \in Patterns : SupplyState(p)
  \/ StartA
  \/ \E k \in 1 .. MaxPulls : StartB(k)
  \/ \E g \in Gens : Pull(g)

SpecReplay == Init /\ [][NextReplay]_vars

(***************************************************************************)
(* Properties.                                                             *)
(***************************************************************************)
NeighbourOffsets == ({-1, 0, 1} \X {-1, 0, 1}) \ {<<0, 0>>}

(* The number of the 8 offsets whose toroidally wrapped cell is alive in S. *)
LiveNeighbours(S, c) ==
  Cardinality({d \in NeighbourOffsets :
                 S.data[<<(c[1] + d[1]) % Width(S), (c[2] + d[2]) % Height(S)>>] = 1})

Cells(S) == Coords(Width(S), Height(S))

Steps(g) == 1 .. (Len(frames[g]) - 1)

(* C1: every cell of update_game_state(S) is alive exactly when its toroidal
   live-neighbour count in S is 3, or it is alive in S and the count is 2, and
   dead in every other case, for every S of width >= 1 and height >= 1. *)
C1_RuleIdentity ==
  \A g \in Gens : \A n \in Steps(g) :
    LET S == frames[g][n]
        T == frames[g][n + 1]
    IN (Width(S) >= 1 /\ Height(S) >= 1) =>
         \A c \in Cells(S) :
           T.data[c] = IF \/ LiveNeighbours(S, c) = 3
                          \/ (S.data[c] = 1 /\ LiveNeighbours(S, c) = 2)
                       THEN 1 ELSE 0

(* A step in which a dead cell with 3 live neighbours was born, a live cell with
   2 survived and a live cell with neither 2 nor 3 died. *)
C1_Witness ==
  \E g \in Gens : \E n \in Steps(g) :
    LET S == frames[g][n]
        T == frames[g][n + 1]
    IN /\ \E c \in Cells(S) :
            S.data[c] = 0 /\ LiveNeighbours(S, c) = 3 /\ T.data[c] = 1
       /\ \E c \in Cells(S) :
            S.data[c] = 1 /\ LiveNeighbours(S, c) = 2 /\ T.data[c] = 1
       /\ \E c \in Cells(S) :
            S.data[c] = 1 /\ LiveNeighbours(S, c) \notin {2, 3} /\ T.data[c] = 0

(* C2: the neighbour count summed from the 8 rolled arrays equals, at every
   coordinate, the number of offsets whose wrapped cell is alive, and so lies
   in 0..8; a lone live cell at (0,0) of a 5x5 grid gives count 1 at (4,4),
   (4,0) and (0,4). *)
C2_NeighbourCount ==
  \A g \in Gens :
    Len(frames[g]) >= 2 =>
      LET S == frames[g][Len(frames[g]) - 1]
          cnt == gen[g].live_neighbors
      IN /\ DOMAIN cnt = Cells(S)
         /\ \A c \in Cells(S) : cnt[c] = LiveNeighbours(S, c) /\ cnt[c] \in 0 .. 8
         /\ S = Corner5 => cnt[<<4, 4>>] = 1 /\ cnt[<<4, 0>>] = 1 /\ cnt[<<0, 4>>] = 1

(* The counts of the 5x5 grid with its corner alive have been computed. *)
C2_Witness ==
  \E g \in Gens :
    /\ Len(frames[g]) >= 2
    /\ frames[g][Len(frames[g]) - 1] = Corner5
    /\ gen[g].live_neighbors[<<4, 4>>] = 1
    /\ gen[g].live_neighbors[<<1, 1>>] = 1
    /\ gen[g].live_neighbors[<<2, 2>>] = 0

(* C3: a generator yields its argument itself first, every later element is
   update_game_state of the element before it, each pull yields exactly one
   element, and the generator is never exhausted. *)
C3_SequenceOrder ==
  \A g \in Gens :
    /\ Len(yielded[g]) = pulls[g]
    /\ Len(frames[g]) = pulls[g]
    /\ Len(yielded[g]) >= 1 =>
         /\ yielded[g][1] = gen[g].arg
         /\ frames[g][1] = heap[gen[g].arg]
    /\ \A n \in Steps(g) : frames[g][n + 1] = update_game_state(frames[g][n])
    /\ gen[g].pc \in {"none", "created", "suspended"}

(* Three elements pulled from a generator whose state keeps changing. *)
C3_Witness ==
  /\ Len(frames["A"]) >= 3
  /\ frames["A"][1] # frames["A"][2]
  /\ frames["A"][2] # frames["A"][3]

ValidCells(a) ==
  /\ DOMAIN a.data = Coords(Width(a), Height(a))
  /\ \A c \in DOMAIN a.data : a.data[c] \in {0, 1}

(* C4: every array reachable from initialize_game(width, height) by
   update_game_state steps has the shape (width, height) and holds only the
   two cell values dead (0) and alive (1). *)
C4_ShapeAndValues ==
  game_state0 # None =>
    /\ held0.shape = <<init_call.width, init_call.height>>
    /\ \A r \in DOMAIN heap : heap[r].shape = held0.shape /\ ValidCells(heap[r])
    /\ \A g \in Gens : \A n \in 1 .. Len(frames[g]) :
         frames[g][n].shape = held0.shape /\ ValidCells(frames[g][n])

(* A randomly initialized grid, stepped twice, whose counts exceeded 1. *)
C4_Witness ==
  /\ init_call.result = "ok"
  /\ Len(frames["A"]) >= 3
  /\ \E c \in Cells(held0) : gen["A"].live_neighbors[c] > 1
  /\ \E c \in Cells(held0) : frames["A"][3].data[c] = 1

(* C5: an array the caller obtained (the initial state, or any frame yielded
   earlier) keeps the contents it had when it was obtained, whatever is
   pulled afterwards. *)
C5_InputUnchanged ==
  /\ game_state0 # None => heap[game_state0] = held0
  /\ \A g \in Gens : \A n \in 1 .. Len(yielded[g]) :
       heap[yielded[g][n]] = frames[g][n]

(* Two steps were taken from a state that changes at each of them. *)
C5_Witness ==
  /\ Len(frames["A"]) >= 3
  /\ frames["A"][2] # held0
  /\ frames["A"][3] # frames["A"][2]
  /\ heap[game_state0] = held0

(* C6: initialize_game with width <= 0 or height <= 0 is rejected and returns
   no grid. *)
C6_InvalidDimensionsRejected ==
  (init_call.result \in {"ok", "error"} /\ (init_call.width <= 0 \/ init_call.height <= 0))
    => (init_call.result = "error" /\ game_state0 = None)

(* C7: a generator started from the k-th element of another yields, element for
   element, what the other yields from position k on, however the pulls of
   the two are interleaved (k = 1: two generators started from the same
   state). *)
C7_Replay ==
  gen["B"].pc # "none" =>
    \A j \in 1 .. Len(frames["B"]) :
      (gen["B"].origin + j - 1 <= Len(frames["A"])) =>
        frames["B"][j] = frames["A"][gen["B"].origin + j - 1]

(* A replay from the second element that has yielded two changing states which
   the original generator has yielded too. *)
C7_Witness ==
  /\ gen["B"].origin = 2
  /\ Len(frames["B"]) >= 2
  /\ Len(frames["A"]) >= 3
  /\ frames["B"][1] # frames["B"][2]
  /\ frames["B"][2] = frames["A"][3]

AllDead(a) == \A c \in DOMAIN a.data : a.data[c] = 0

(* C8: from an all-dead grid every state yielded is all-dead. *)
C8_AllDeadStays ==
  (game_state0 # None /\ AllDead(held0)) =>
    \A g \in Gens : \A n \in 1 .. Len(frames[g]) : AllDead(frames[g][n])

(* The 3x3 all-dead grid after the last step the bound allows. *)
C8_Witness ==
  /\ held0 = AllDead3
  /\ Len(frames["A"]) = MaxPulls
  /\ AllDead(frames["A"][MaxPulls])

(* C9: from the horizontal blinker on the 10x10 torus the states yielded
   alternate between it and the vertical blinker: odd elements are the
   horizontal one, even elements the vertical one. *)
C9_Blinker ==
  held0 = BlinkerH =>
    \A g \in Gens : \A n \in 1 .. Len(frames[g]) :
      frames[g][n] = IF (gen[g].origin + n - 1) % 2 = 1 THEN BlinkerH ELSE BlinkerV

(* The blinker has turned vertical and come back. *)
C9_Witness ==
  /\ held0 = BlinkerH
  /\ Len(frames["A"]) >= 3
  /\ frames["A"][2] = BlinkerV
  /\ frames["A"][3] = BlinkerH

(* S shifted cyclically by a along axis 0 and b along axis 1. *)
CyclicShift(S, a, b) ==
  MkArray(Width(S), Height(S), S.dtype,
          [c \in Cells(S) |-> S.data[<<(c[1] - a) % Width(S), (c[2] - b) % Height(S)>>]])

(* C10: stepping a cyclically shifted grid gives the cyclically shifted step
   of the grid, for every shift along both axes. *)
C10_TranslationCommutes ==
  \A g \in Gens : \A n \in Steps(g) :
    LET S == frames[g][n]
        T == frames[g][n + 1]
    IN \A a \in 0 .. (Width(S) - 1), b \in 0 .. (Height(S) - 1) :
         update_game_state(CyclicShift(S, a, b)) = CyclicShift(T, a, b)

(* A step of a grid that is neither empty nor invariant under the unit shifts. *)
C10_Witness ==
  \E n \in Steps("A") :
    LET S == frames["A"][n]
    IN /\ Width(S) >= 3
       /\ CyclicShift(S, 1, 0) # S
       /\ CyclicShift(S, 0, 1) # S
       /\ frames["A"][n + 1] # S

====
